---- MODULE Spec2Model ----
(***************************************************************************)
(* Model of the mosaic block observer: the Ethereum connection             *)
(* (src/src/ethereum/mod.rs) and the observer that drives one worker per   *)
(* chain (src/src/observer/mod.rs).                                        *)
(*                                                                         *)
(* One action is one turn of a task on the single-threaded event loop: a   *)
(* response of the node arrives and the task runs until it suspends at its *)
(* next network call.                                                      *)
(***************************************************************************)
EXTENDS Integers, Sequences, FiniteSets, TLC

VARIABLES
    reactors,   \* Ethereum.reactors of each connection
    started,    \* TRUE once observer::run has spawned the two workers
    pc,         \* what each chain's worker task is suspended at
    queue,      \* block hashes of the last filter poll not yet taken
    cur,        \* block hash of the pipeline item in flight (0: none)
    block,      \* the converted Block waiting for its logs (<<>>: none)
    announced,  \* number of block hashes the node of each chain has announced
    delivered,  \* hashes of the blocks each chain's action was called with, in order
    last,       \* what the last turn of a task did (item, logs written, calls)
    calls       \* the futures returned by Ethereum::sign: where each is, the
                \* requests it has sent and the answers it has got

vars == <<reactors, started, pc, queue, cur, block, announced, delivered, last,
          calls>>

observerVars == <<reactors, started, pc, queue, cur, block, announced, delivered,
                  last>>

signVars == <<calls>>

-----------------------------------------------------------------------------
(* Bounds *)

\* Block hashes the two nodes announce in total.
MaxHashes == 2
\* Logs a node returns for one block.
MaxLogs == 2
\* register_reactor calls in total.
MaxReactors == 2
\* Calls of sign.
MaxSigns == 2

-----------------------------------------------------------------------------
(* Values *)

Chains == {"origin", "auxiliary"}

None == <<>>

Some(x) == <<x>>

Ok(v) == [ok |-> TRUE, val |-> v]

Err(e) == [ok |-> FALSE, err |-> e]

\* error::Error: a kind, the message text and the text of the error it renders.
Error_new(kind, text, cause) == [kind |-> kind, text |-> text, cause |-> cause]

\* What the transport reports when a request fails.
TransportErrors == {"transport error"}

\* U128 block numbers are their two 64 bit limbs [lo, hi]; the limb values are
\* small stand-ins.

\* web3::types::Block as the node returns it; v fills the fields other than
\* hash and number.
Web3Block(hash, number, v) ==
    [hash |-> hash, number |-> number,
     parent_hash |-> 10 + v, author |-> 20 + v, state_root |-> 30 + v,
     transactions_root |-> 40 + v, logs_bloom |-> 50 + v,
     total_difficulty |-> 60 + v, gas_limit |-> 70 + v, gas_used |-> 80 + v,
     timestamp |-> 90 + v, extra_data |-> 100 + v, difficulty |-> 110 + v]

\* The records a node may return for the block hash h: with and without hash,
\* with and without number, with two fillings of the other fields.
Web3Blocks(h) ==
    { Web3Block(hash, f[1], f[2]) :
        hash \in {None, Some(h)},
        f \in { <<None, 1>>,
                <<Some([lo |-> 7, hi |-> 0]), 1>>,
                <<Some([lo |-> 7, hi |-> 1]), 2>> } }

\* The logs a node may return for one block: log i of the answer carries i.
Topics == {"known", "unknown", "malformed"}

LogSeqs ==
    UNION { [1..n -> Topics] : n \in 0..MaxLogs }

Logs(topics) == [i \in 1..Len(topics) |-> [id |-> i, topic |-> topics[i]]]

-----------------------------------------------------------------------------
(* Block conversion *)

into_block_receipts_from_state_root(self) ==
    IF self.hash = None
    THEN Err(Error_new("InvalidBlock", "Block has no hash", ""))
    ELSE IF self.number = None
    THEN Err(Error_new("InvalidBlock", "Block has no number", ""))
    ELSE Ok([hash |-> self.hash[1],
             parent_hash |-> self.parent_hash,
             uncles_hash |-> self.parent_hash,
             author |-> self.author,
             state_root |-> self.state_root,
             transactions_root |-> self.transactions_root,
             receipts_root |-> self.state_root,
             logs_bloom |-> self.logs_bloom,
             total_difficulty |-> self.total_difficulty,
             number |-> self.number[1],
             gas_limit |-> self.gas_limit,
             gas_used |-> self.gas_used,
             timestamp |-> self.timestamp,
             extra_data |-> self.extra_data,
             mix_data |-> self.transactions_root,
             nonce |-> self.difficulty,
             events |-> <<>>])

into_block_no_number_check(self) ==
    IF self.hash = None
    THEN Err(Error_new("InvalidBlock", "Block has no hash", ""))
    ELSE Ok([hash |-> self.hash[1],
             parent_hash |-> self.parent_hash,
             uncles_hash |-> self.parent_hash,
             author |-> self.author,
             state_root |-> self.state_root,
             transactions_root |-> self.transactions_root,
             receipts_root |-> self.transactions_root,
             logs_bloom |-> self.logs_bloom,
             total_difficulty |-> self.total_difficulty,
             number |-> IF self.number = None THEN [lo |-> 0, hi |-> 0]
                        ELSE self.number[1],
             gas_limit |-> self.gas_limit,
             gas_used |-> self.gas_used,
             timestamp |-> self.timestamp,
             extra_data |-> self.extra_data,
             mix_data |-> self.transactions_root,
             nonce |-> self.difficulty,
             events |-> <<>>])

into_block_validates_parent(self) ==
    IF self.hash = None
    THEN Err(Error_new("InvalidBlock", "Block has no hash", ""))
    ELSE IF self.number = None
    THEN Err(Error_new("InvalidBlock", "Block has no number", ""))
    ELSE IF self.parent_hash = 12
    THEN Err(Error_new("InvalidBlock", "Block has no parent", ""))
    ELSE Ok([hash |-> self.hash[1],
             parent_hash |-> self.parent_hash,
             uncles_hash |-> self.parent_hash,
             author |-> self.author,
             state_root |-> self.state_root,
             transactions_root |-> self.transactions_root,
             receipts_root |-> self.transactions_root,
             logs_bloom |-> self.logs_bloom,
             total_difficulty |-> self.total_difficulty,
             number |-> self.number[1],
             gas_limit |-> self.gas_limit,
             gas_used |-> self.gas_used,
             timestamp |-> self.timestamp,
             extra_data |-> self.extra_data,
             mix_data |-> self.transactions_root,
             nonce |-> self.difficulty,
             events |-> <<>>])

\* IntoBlock for Web3Block: the fields of the struct literal are evaluated in
\* order, so a missing hash is reported before a missing number.
into_block(self) ==
    IF self.hash = None
    THEN Err(Error_new("InvalidBlock", "Block has no hash", ""))
    ELSE IF self.number = None
    THEN Err(Error_new("InvalidBlock", "Block has no number", ""))
    ELSE Ok([hash |-> self.hash[1],
             parent_hash |-> self.parent_hash,
             uncles_hash |-> self.parent_hash,
             author |-> self.author,
             state_root |-> self.state_root,
             transactions_root |-> self.transactions_root,
             receipts_root |-> self.transactions_root,
             logs_bloom |-> self.logs_bloom,
             total_difficulty |-> self.total_difficulty,
             number |-> self.number[1],
             gas_limit |-> self.gas_limit,
             gas_used |-> self.gas_used,
             timestamp |-> self.timestamp,
             extra_data |-> self.extra_data,
             mix_data |-> self.transactions_root,
             nonce |-> self.difficulty,
             events |-> <<>>])

-----------------------------------------------------------------------------
(* Event handler and reactors (collaborators of the connection) *)

\* EventHandler::log_into_event: Ok(Some(event)), Ok(None) or a decode error.
log_into_event(log) ==
    CASE log.topic = "known" -> Ok(Some([log |-> log.id]))
      [] log.topic = "unknown" -> Ok(None)
      [] OTHER -> Err(Error_new("DecodeError", "malformed log", ""))

\* Reactor::react(block, event_loop): the call as the reactor sees it.
react(reactor, b) == [reactor |-> reactor, block |-> b]

-----------------------------------------------------------------------------
(* Ethereum: the reactor registry *)

notify_reactors_reversed(rs, b) ==
    [i \in 1..Len(rs) |-> react(rs[Len(rs) + 1 - i], b)]

register_reactor_once(rs, reactor) ==
    IF \E i \in 1..Len(rs) : rs[i] = reactor THEN rs ELSE Append(rs, reactor)

\* Ethereum::register_reactor: self.reactors.push(reactor)
register_reactor(rs, reactor) == Append(rs, reactor)

\* The calls of react that notify_reactors makes, in the order it makes them.
notify_reactors(rs, b) ==
    [i \in 1..Len(rs) |-> react(rs[i], b)]

-----------------------------------------------------------------------------
(* Ethereum::stream_blocks: the stages of one pipeline item *)

\* The error of the block hash stream (also of the filter's creation).
hash_stream_error(e) ==
    Err(Error_new("NodeError", "Error while streaming blocks from node", e))

\* web3.eth().block(hash) with its map_err.
web3_blocks(resp) ==
    IF resp.ok THEN resp
    ELSE Err(Error_new("NodeError", "Was not able to retrieve block", resp.err))

blocks_defaulting(web3_block) ==
    IF web3_block = None
    THEN Ok(into_block(Web3Block(Some(0), Some([lo |-> 0, hi |-> 0]), 1)).val)
    ELSE LET converted == into_block(web3_block[1])
         IN  IF converted.ok THEN Ok(converted.val)
             ELSE Err(Error_new("NodeError", "Could not convert block from web3",
                                converted.err.text))

\* Option<Web3Block> to Block.
blocks(web3_block) ==
    IF web3_block = None
    THEN Err(Error_new("NodeError", "No block found", ""))
    ELSE LET converted == into_block(web3_block[1])
         IN  IF converted.ok THEN Ok(converted.val)
             ELSE Err(Error_new("NodeError", "Could not convert block from web3",
                                converted.err.text))

\* web3_blocks.and_then(...): an error item passes through, the closure is not
\* called for it.
and_then_blocks(fetched) == IF fetched.ok THEN blocks(fetched.val) ELSE fetched

high_u64(number) == number.hi

\* U128::low_u64: the low limb, number mod 2^64.
low_u64(number) == number.lo

\* The filter for all logs of the block.
log_filter(b) ==
    [from_block |-> low_u64(b.number), to_block |-> low_u64(b.number)]

RECURSIVE push_events_prepend(_, _)
push_events_prepend(events, logs) ==
    IF logs = <<>> THEN events
    ELSE LET r == log_into_event(Head(logs))
         IN  push_events_prepend(
                 IF r.ok /\ r.val # None THEN <<r.val[1]>> \o events ELSE events,
                 Tail(logs))

\* for log in logs { match event_handler.log_into_event(&log) ... }
RECURSIVE push_events(_, _)
push_events(events, logs) ==
    IF logs = <<>> THEN events
    ELSE LET r == log_into_event(Head(logs))
         IN  push_events(
                 IF r.ok /\ r.val # None THEN Append(events, r.val[1]) ELSE events,
                 Tail(logs))

\* The warnings the loop over the logs writes.
RECURSIVE decode_warnings(_)
decode_warnings(logs) ==
    IF logs = <<>> THEN <<>>
    ELSE LET r == log_into_event(Head(logs))
         IN  (IF r.ok THEN <<>>
              ELSE <<[level |-> "warn",
                      text |-> "Was not able to convert a log into an event",
                      cause |-> r.err.text]>>)
             \o decode_warnings(Tail(logs))

\* The logs event_handler.log_into_event is called with: the closure of map
\* runs for the logs of a successful request only.
handler_calls(resp) == IF resp.ok THEN resp.val ELSE <<>>

RECURSIVE first_decode_error(_)
first_decode_error(logs) ==
    IF logs = <<>> THEN None
    ELSE LET r == log_into_event(Head(logs))
         IN  IF r.ok THEN first_decode_error(Tail(logs)) ELSE Some(r.err)

populate_failing_on_decode_error(b, resp) ==
    IF ~resp.ok
    THEN Err(Error_new("NodeError", "Error while retrieving logs from node",
                       resp.err))
    ELSE IF first_decode_error(resp.val) # None
    THEN Err(Error_new("NodeError", "Was not able to convert a log into an event",
                       first_decode_error(resp.val)[1].text))
    ELSE Ok([b EXCEPT !.events = push_events(b.events, resp.val)])

\* web3.eth().logs(filter) with its map_err and the map that adds the events.
populate(b, resp) ==
    IF ~resp.ok
    THEN Err(Error_new("NodeError", "Error while retrieving logs from node",
                       resp.err))
    ELSE Ok([b EXCEPT !.events = push_events(b.events, resp.val)])

-----------------------------------------------------------------------------
(* observer: the per-chain actions and the worker *)

\* origin_block_function: two info lines, then notify_reactors on origin.
origin_block_function(b, origin) ==
    [logged |-> <<[level |-> "info", text |-> "Origin Block:     ", cause |-> ""],
                  [level |-> "info", text |-> "Origin Events:    ", cause |-> ""]>>,
     reacted |-> notify_reactors(origin, b),
     result |-> Ok(<<>>)]

\* auxiliary_block_function: the same on auxiliary.
auxiliary_block_function(b, auxiliary) ==
    [logged |-> <<[level |-> "info", text |-> "Auxiliary Block:     ", cause |-> ""],
                  [level |-> "info", text |-> "Auxiliary Events:    ", cause |-> ""]>>,
     reacted |-> notify_reactors(auxiliary, b),
     result |-> Ok(<<>>)]

Wiring_crossed ==
    [origin |-> [stream |-> "origin", function |-> "origin",
                 block_chain |-> "auxiliary"],
     auxiliary |-> [stream |-> "auxiliary", function |-> "auxiliary",
                    block_chain |-> "origin"]]

\* run: which stream, which function and which connection each worker gets.
Wiring ==
    [origin |-> [stream |-> "origin", function |-> "origin",
                 block_chain |-> "origin"],
     auxiliary |-> [stream |-> "auxiliary", function |-> "auxiliary",
                    block_chain |-> "auxiliary"]]

block_function(kind, b, rs) ==
    IF kind = "origin" THEN origin_block_function(b, rs)
    ELSE auxiliary_block_function(b, rs)

worker_without_then(function, rs, item) ==
    IF ~item.ok
    THEN [logged |-> <<>>, reacted |-> <<>>, action |-> FALSE, go |-> FALSE]
    ELSE LET f == block_function(function, item.val, rs)
         IN  [logged |->
                  f.logged \o
                  (IF f.result.ok THEN <<>>
                   ELSE <<[level |-> "error",
                           text |-> "There was an error when processing a block",
                           cause |-> f.result.err.text]>>),
              reacted |-> f.reacted, action |-> TRUE, go |-> TRUE]

\* worker: what `then` and `for_each` do with one item of the block stream.
\* go: for_each polls the stream for the next item.
worker(function, rs, item) ==
    IF ~item.ok
    THEN [logged |-> <<[level |-> "error", text |-> "Error when streaming blocks",
                        cause |-> item.err.text]>>,
          reacted |-> <<>>, action |-> FALSE, go |-> TRUE]
    ELSE LET f == block_function(function, item.val, rs)
         IN  [logged |->
                  f.logged \o
                  (IF f.result.ok THEN <<>>
                   ELSE <<[level |-> "error",
                           text |-> "There was an error when processing a block",
                           cause |-> f.result.err.text]>>),
              reacted |-> f.reacted, action |-> TRUE, go |-> TRUE]

spawned_one_after_the_other(c) ==
    /\ started
    /\ c = "auxiliary" => pc["origin"] = "ended"

\* event_loop.spawn(origin_worker); event_loop.spawn(auxiliary_worker): each
\* task is polled when the response it waits for is there.
spawned(c) == started

-----------------------------------------------------------------------------
(* State *)

NoTurn ==
    [chain |-> "", stage |-> "", hash |-> 0, response |-> None, conv |-> None,
     item |-> None, logged |-> <<>>, reacted |-> <<>>, request |-> None,
     rest |-> <<>>, decoded |-> <<>>]

NoCall ==
    [pc |-> "idle", data |-> "", sent |-> <<>>, unlocked |-> None, signed |-> None,
     result |-> None]

Init ==
    /\ reactors = [c \in Chains |-> <<>>]
    /\ started = FALSE
    /\ pc = [c \in Chains |-> "new"]
    /\ queue = [c \in Chains |-> <<>>]
    /\ cur = [c \in Chains |-> 0]
    /\ block = [c \in Chains |-> None]
    /\ announced = [c \in Chains |-> 0]
    /\ delivered = [c \in Chains |-> <<>>]
    /\ last = NoTurn
    /\ calls = [i \in 1..MaxSigns |-> NoCall]

Registered == Len(reactors["origin"]) + Len(reactors["auxiliary"])

Announced == announced["origin"] + announced["auxiliary"]

NextHash_newest(q) ==
    IF q # <<>>
    THEN [pc |-> "block", cur |-> q[Len(q)], queue |-> SubSeq(q, 1, Len(q) - 1),
          request |-> Some([method |-> "eth_getBlockByHash", hash |-> q[Len(q)]])]
    ELSE [pc |-> "poll", cur |-> 0, queue |-> <<>>, request |-> None]

\* The poll of the block hash stream that for_each makes after an item: the
\* next hash of the batch goes to web3.eth().block, or the stream waits for
\* the next poll of the filter.
NextHash(q) ==
    IF q # <<>>
    THEN [pc |-> "block", cur |-> Head(q), queue |-> Tail(q),
          request |-> Some([method |-> "eth_getBlockByHash", hash |-> Head(q)])]
    ELSE [pc |-> "poll", cur |-> 0, queue |-> <<>>, request |-> None]

Ended == [pc |-> "ended", cur |-> 0, queue |-> <<>>, request |-> None]

\* The item reaches the worker; the task then suspends at `nxt` (or is over).
Emit(c, stage, response, conv, item, warnings, decoded, nxt) ==
    LET w == worker(Wiring[c].function, reactors[Wiring[c].block_chain], item)
        to == IF w.go THEN nxt ELSE Ended
    IN  /\ pc' = [pc EXCEPT ![c] = to.pc]
        /\ cur' = [cur EXCEPT ![c] = to.cur]
        /\ queue' = [queue EXCEPT ![c] = to.queue]
        /\ block' = [block EXCEPT ![c] = None]
        /\ delivered' =
               [delivered EXCEPT ![c] =
                    IF w.action THEN Append(@, item.val.hash) ELSE @]
        /\ last' = [chain |-> c, stage |-> stage, hash |-> cur[c],
                    response |-> response, conv |-> conv, item |-> Some(item),
                    logged |-> warnings \o w.logged, reacted |-> w.reacted,
                    request |-> to.request, rest |-> queue[c],
                    decoded |-> decoded]

-----------------------------------------------------------------------------
(* Actions of the observer *)

can_register_while_shared == TRUE

\* Ethereum::register_reactor takes &mut self: it can be called while the
\* connection is held exclusively, not once run shares it (Arc) with a worker.
can_register == ~started

\* Ethereum::register_reactor(reactor) on the connection of chain c.
RegisterReactor(c, r) ==
    /\ can_register
    /\ Registered < MaxReactors
    /\ reactors' = [reactors EXCEPT ![c] = register_reactor(@, r)]
    /\ last' = [NoTurn EXCEPT !.chain = c, !.stage = "register",
                              !.request = Some([method |-> "register_reactor",
                                                reactor |-> r])]
    /\ UNCHANGED <<started, pc, queue, cur, block, announced, delivered>>
    /\ UNCHANGED signVars

\* observer::run: both streams are built and both workers are spawned; each
\* stream starts with the request that creates its block filter.
Run ==
    /\ ~started
    /\ started' = TRUE
    /\ pc' = [c \in Chains |-> "filter"]
    /\ last' = [NoTurn EXCEPT !.stage = "run",
                              !.request = Some([method |-> "eth_newBlockFilter"])]
    /\ UNCHANGED <<reactors, queue, cur, block, announced, delivered>>
    /\ UNCHANGED signVars

\* The answer to create_blocks_filter. On an error flatten_stream yields the
\* error once and is then at its end.
FilterCreated(c) ==
    /\ spawned(c)
    /\ pc[c] = "filter"
    /\ \/ /\ pc' = [pc EXCEPT ![c] = "poll"]
          /\ last' = [NoTurn EXCEPT !.chain = c, !.stage = "filter"]
          /\ UNCHANGED <<queue, cur, block, delivered>>
       \/ \E e \in TransportErrors :
              Emit(c, "filter", Some(Err(e)), None, hash_stream_error(e), <<>>,
                   <<>>, Ended)
    /\ UNCHANGED <<reactors, started, announced>>
    /\ UNCHANGED signVars

\* A poll of the filter answers with new block hashes (the stream hands them
\* out one by one), or fails. What the filter stream does after a failed poll
\* is up to web3: it goes on polling or it is at its end.
HashesArrive(c) ==
    /\ spawned(c)
    /\ pc[c] = "poll"
    /\ \/ \E n \in 1..(MaxHashes - Announced) :
              LET batch == [i \in 1..n |-> announced[c] + i]
                  to == NextHash(batch)
              IN  /\ announced' = [announced EXCEPT ![c] = @ + n]
                  /\ pc' = [pc EXCEPT ![c] = to.pc]
                  /\ cur' = [cur EXCEPT ![c] = to.cur]
                  /\ queue' = [queue EXCEPT ![c] = to.queue]
                  /\ last' = [NoTurn EXCEPT !.chain = c, !.stage = "hashes",
                                            !.response = Some(Ok(batch)),
                                            !.request = to.request]
                  /\ UNCHANGED <<block, delivered>>
       \/ \E e \in TransportErrors, to \in {NextHash(<<>>), Ended} :
              /\ Emit(c, "hashes", Some(Err(e)), None, hash_stream_error(e), <<>>,
                      <<>>, to)
              /\ UNCHANGED announced
    /\ UNCHANGED <<reactors, started>>
    /\ UNCHANGED signVars

\* The answer to web3.eth().block(hash): an error, no block, or a block. The
\* block is converted; a converted block goes on to the request for its logs,
\* anything else is the item of this hash.
BlockArrives(c) ==
    /\ spawned(c)
    /\ pc[c] = "block"
    /\ \E resp \in { Err(e) : e \in TransportErrors } \cup {Ok(None)}
                   \cup { Ok(Some(raw)) : raw \in Web3Blocks(cur[c]) } :
          LET fetched == web3_blocks(resp)
              item == and_then_blocks(fetched)
              conv == IF resp.ok /\ resp.val # None
                      THEN Some(into_block(resp.val[1])) ELSE None
          IN  IF item.ok
              THEN /\ pc' = [pc EXCEPT ![c] = "logs"]
                   /\ block' = [block EXCEPT ![c] = Some(item.val)]
                   /\ last' = [NoTurn EXCEPT
                                  !.chain = c, !.stage = "block", !.hash = cur[c],
                                  !.response = Some(resp), !.conv = conv,
                                  !.request =
                                      Some([method |-> "eth_getLogs",
                                            filter |-> log_filter(item.val)]),
                                  !.rest = queue[c]]
                   /\ UNCHANGED <<queue, cur, delivered>>
              ELSE Emit(c, "block", Some(resp), conv, item, <<>>, <<>>,
                        NextHash(queue[c]))
    /\ UNCHANGED <<reactors, started, announced>>
    /\ UNCHANGED signVars

\* The answer to web3.eth().logs(filter): an error or the logs. The events of
\* the logs are added to the block, which is the item of this hash.
LogsArrive(c) ==
    /\ spawned(c)
    /\ pc[c] = "logs"
    /\ \E resp \in { Err(e) : e \in TransportErrors }
                   \cup { Ok(Logs(t)) : t \in LogSeqs } :
          Emit(c, "logs", Some(resp), None, populate(block[c][1], resp),
               IF resp.ok THEN decode_warnings(resp.val) ELSE <<>>,
               handler_calls(resp), NextHash(queue[c]))
    /\ UNCHANGED <<reactors, started, announced>>
    /\ UNCHANGED signVars

Next ==
    \/ \E c \in Chains : RegisterReactor(c, Registered + 1)
    \/ Run
    \/ \E c \in Chains : FilterCreated(c)
    \/ \E c \in Chains : HashesArrive(c)
    \/ \E c \in Chains : BlockArrives(c)
    \/ \E c \in Chains : LogsArrive(c)

Spec == Init /\ [][Next]_vars

-----------------------------------------------------------------------------
(* The registry used directly: a connection that is not shared with a worker *)

\* The reactors handed to register_reactor; the same one may be handed twice.
Reactors == {1, 2}

\* Blocks notify_reactors is called with.
SomeBlocks ==
    { into_block(raw).val :
        raw \in { w \in Web3Blocks(1) \cup Web3Blocks(2) :
                      w.hash # None /\ w.number # None } }

\* Ethereum::notify_reactors(block) on the connection of chain c.
NotifyReactors(c, b) ==
    /\ ~started
    /\ last' = [NoTurn EXCEPT !.chain = c, !.stage = "notify", !.hash = b.hash,
                              !.item = Some(Ok(b)),
                              !.reacted = notify_reactors(reactors[c], b)]
    /\ UNCHANGED <<reactors, started, pc, queue, cur, block, announced, delivered>>
    /\ UNCHANGED signVars

NextRegistry ==
    \/ \E c \in Chains, r \in Reactors : RegisterReactor(c, r)
    \/ \E c \in Chains, b \in SomeBlocks : NotifyReactors(c, b)

SpecRegistry == Init /\ [][NextRegistry]_vars

-----------------------------------------------------------------------------
(* Ethereum::sign and Ethereum::unlock_account *)

\* self.validator
Validator == "validator"

\* self.password
Password == "password"

Data == {"d1", "d2"}

\* The request of web3.personal().unlock_account(validator, password, duration).
unlock_request(duration) ==
    [method |-> "personal_unlockAccount", account |-> Validator,
     password |-> Password, duration |-> duration]

\* unlock_account: the node's answer with its map_err.
unlock_account(resp) ==
    IF resp.ok THEN resp
    ELSE Err(Error_new("NodeError", "Was not able to unlock account", resp.err))

\* sign: self.unlock_account(None)
sign_unlock_duration == None

\* The request of web3.eth().sign(validator, data).
sign_request(data) == [method |-> "eth_sign", account |-> Validator, data |-> data]

sign_goes_on_after_any_unlock(unlocked) == TRUE

\* sign: the and_then after unlock_account runs its closure on Ok(_) only.
sign_goes_on(unlocked) == unlocked.ok

\* sign: the answer to the sign request with its map_err.
sign_result(resp) ==
    IF resp.ok THEN resp
    ELSE Err(Error_new("NodeError", "Was not able to sign data", resp.err))

\* sign(data) is called: the future starts with the unlock request.
Sign(i) ==
    /\ calls[i].pc = "idle"
    /\ \E data \in Data :
          calls' = [calls EXCEPT ![i] =
                        [@ EXCEPT !.pc = "unlock", !.data = data,
                                  !.sent = <<unlock_request(sign_unlock_duration)>>]]
    /\ UNCHANGED observerVars

\* The node answers the unlock request: true, false or an error.
UnlockAnswered(i) ==
    /\ calls[i].pc = "unlock"
    /\ \E resp \in {Ok(TRUE), Ok(FALSE)} \cup { Err(e) : e \in TransportErrors } :
          LET unlocked == unlock_account(resp)
          IN  calls' = [calls EXCEPT ![i] =
                  IF sign_goes_on(unlocked)
                  THEN [@ EXCEPT !.pc = "sign", !.unlocked = Some(resp),
                                 !.sent = Append(@, sign_request(calls[i].data))]
                  ELSE [@ EXCEPT !.pc = "done", !.unlocked = Some(resp),
                                 !.result = Some(unlocked)]]
    /\ UNCHANGED observerVars

\* The node answers the sign request: the signature or an error.
SignAnswered(i) ==
    /\ calls[i].pc = "sign"
    /\ \E resp \in {Ok([signature_of |-> calls[i].data])}
                   \cup { Err(e) : e \in TransportErrors } :
          calls' = [calls EXCEPT ![i] =
                        [@ EXCEPT !.pc = "done", !.signed = Some(resp),
                                  !.result = Some(sign_result(resp))]]
    /\ UNCHANGED observerVars

NextSign ==
    \/ \E i \in 1..MaxSigns : Sign(i)
    \/ \E i \in 1..MaxSigns : UnlockAnswered(i)
    \/ \E i \in 1..MaxSigns : SignAnswered(i)

SpecSign == Init /\ [][NextSign]_vars

-----------------------------------------------------------------------------
(* Properties *)

\* The last turn handed an item to the worker of chain c.
Handled(c) == last.chain = c /\ last.item # None

\* The last turn called the per-block action of chain c with a block.
Acted(c) == Handled(c) /\ last.item[1].ok

\* The logs the node returned in the last turn.
ReturnedLogs == last.response[1].val

HasEvent(log) == log_into_event(log).ok /\ log_into_event(log).val # None

\* The events of the logs that have one, in the order of the logs.
EventsOf(logs) ==
    LET present == SelectSeq(logs, HasEvent)
    IN  [i \in 1..Len(present) |-> log_into_event(present[i]).val[1]]

Decodes(log) == log_into_event(log).ok

\* C1: when notify_reactors is called with a block, every entry of the
\* connection's registry is invoked once, in registration order, each with that
\* block.
C1_NotifyInRegistrationOrder ==
    \A c \in Chains :
        Acted(c) =>
            /\ Len(last.reacted) = Len(reactors[c])
            /\ \A i \in 1..Len(reactors[c]) :
                   /\ last.reacted[i].reactor = reactors[c][i]
                   /\ last.reacted[i].block = last.item[1].val

C1_Witness ==
    \E c \in Chains :
        /\ Acted(c)
        /\ Len(reactors[c]) = 2
        /\ last.reacted[1].reactor = reactors[c][1]
        /\ last.reacted[2].reactor = reactors[c][2]
        /\ reactors[c][1] # reactors[c][2]

BlockFetchFailed ==
    /\ last.stage = "block"
    /\ \/ ~last.response[1].ok
       \/ last.response[1].val = None

LogFetchFailed == last.stage = "logs" /\ ~last.response[1].ok

\* C2: after the block fetch or the log fetch of one hash has failed, the
\* pipeline of that chain is not over: the next hash of the batch is being
\* fetched, or the filter is polled for new hashes.
C2_FailureDoesNotStopLaterHashes ==
    \A c \in Chains :
        (Handled(c) /\ (BlockFetchFailed \/ LogFetchFailed)) =>
            /\ ~last.item[1].ok
            /\ IF last.rest # <<>>
               THEN /\ pc[c] = "block"
                    /\ cur[c] = Head(last.rest)
                    /\ queue[c] = Tail(last.rest)
                    /\ last.request = Some([method |-> "eth_getBlockByHash",
                                            hash |-> Head(last.rest)])
               ELSE pc[c] = "poll"

C2_Witness ==
    \E c \in Chains :
        /\ Handled(c)
        /\ BlockFetchFailed
        /\ last.hash = 1
        /\ pc[c] = "block"
        /\ cur[c] = 2

\* C3: the events of an emitted block are the events of those returned logs
\* for which the handler gave one, in the order of the logs.
C3_EventsAreThePresentOnesInLogOrder ==
    \A c \in Chains :
        (Acted(c) /\ last.stage = "logs") =>
            last.item[1].val.events = EventsOf(ReturnedLogs)

C3_Witness ==
    \E c \in Chains :
        /\ Acted(c)
        /\ Len(ReturnedLogs) = 2
        /\ last.item[1].val.events = <<[log |-> 1], [log |-> 2]>>

\* C4: when the node returns the logs, the block is emitted and delivered to
\* the reactors however many logs fail to decode, and its events are those of
\* the logs that do decode.
C4_DecodeErrorNeverFailsTheBlock ==
    \A c \in Chains :
        (Handled(c) /\ last.stage = "logs" /\ last.response[1].ok) =>
            /\ last.item[1].ok
            /\ last.item[1].val.events = EventsOf(SelectSeq(ReturnedLogs, Decodes))
            /\ Len(last.reacted) = Len(reactors[c])
            /\ delivered[c] # <<>>
            /\ delivered[c][Len(delivered[c])] = last.hash

C4_Witness ==
    \E c \in Chains :
        /\ Handled(c)
        /\ last.stage = "logs"
        /\ last.response[1].ok
        /\ Len(ReturnedLogs) = 2
        /\ ~Decodes(ReturnedLogs[1])
        /\ last.item[1].ok
        /\ last.item[1].val.events = <<[log |-> 2]>>
        /\ last.reacted # <<>>

\* The last turn ran the converter on a record the node returned.
Converted == last.stage = "block" /\ last.conv # None

ConvertedRecord == last.response[1].val[1]

\* C5: a record without hash or without number converts to an error that
\* names a missing field, and no Block comes of it.
C5_MissingFieldIsAnError ==
    (Converted /\ (ConvertedRecord.hash = None \/ ConvertedRecord.number = None)) =>
        /\ ~last.conv[1].ok
        /\ last.conv[1].err.kind = "InvalidBlock"
        /\ last.conv[1].err.text =
               (IF ConvertedRecord.hash = None THEN "Block has no hash"
                ELSE "Block has no number")
        /\ block[last.chain] = None
        /\ ~last.item[1].ok

C5_Witness ==
    /\ Converted
    /\ ConvertedRecord.hash # None
    /\ ConvertedRecord.number = None
    /\ last.conv[1].err.text = "Block has no number"

\* C6: a record with hash and number converts to a Block with that hash, that
\* number and no events, whatever its other fields are.
C6_CompleteRecordConverts ==
    (Converted /\ ConvertedRecord.hash # None /\ ConvertedRecord.number # None) =>
        /\ last.conv[1].ok
        /\ last.conv[1].val.events = <<>>
        /\ last.conv[1].val.hash = ConvertedRecord.hash[1]
        /\ last.conv[1].val.number = ConvertedRecord.number[1]

C6_Witness ==
    /\ Converted
    /\ ConvertedRecord.hash # None
    /\ ConvertedRecord.number = Some([lo |-> 7, hi |-> 1])
    /\ ConvertedRecord.parent_hash = 12
    /\ last.conv[1].ok
    /\ last.conv[1].val.number = [lo |-> 7, hi |-> 1]

\* C7: a failed conversion is emitted as an error of kind InvalidBlock that
\* wraps the converter's error, and the stream goes on.
C7_ConversionFailureIsInvalidBlock ==
    \A c \in Chains :
        (Handled(c) /\ Converted /\ ~last.conv[1].ok) =>
            /\ ~last.item[1].ok
            /\ last.item[1].err.kind = "InvalidBlock"
            /\ last.item[1].err.cause = last.conv[1].err.text
            /\ pc[c] \in {"poll", "block"}

\* The hashes of a chain are numbered in the order its filter announced them.
InDiscoveryOrder(hashes) ==
    \A i, j \in 1..Len(hashes) : i < j => hashes[i] < hashes[j]

Waiting(c) == started /\ pc[c] \in {"filter", "poll", "block", "logs"}

Turn(c) == FilterCreated(c) \/ HashesArrive(c) \/ BlockArrives(c) \/ LogsArrive(c)

\* C8: each chain's action (and so its reactors) gets that chain's blocks in the
\* order its filter announced their hashes, and a worker waiting for an answer
\* of its node can take its turn whatever the other chain's worker is waiting
\* for or has last done.
C8_ChainsDoNotBlockEachOther ==
    \A c \in Chains :
        /\ InDiscoveryOrder(delivered[c])
        /\ Acted(c) =>
               /\ delivered[c][Len(delivered[c])] = last.item[1].val.hash
               /\ \A i \in 1..Len(last.reacted) :
                      last.reacted[i].block.hash = last.hash
        /\ Waiting(c) => ENABLED Turn(c)

C8_Witness ==
    /\ pc["origin"] = "filter"
    /\ delivered["auxiliary"] = <<1, 2>>
    /\ Acted("auxiliary")
    /\ last.reacted # <<>>

\* C9: a worker that has handled the item of a hash, whatever it was, waits for
\* the next hash or is fetching it; a worker ends only in a turn in which the
\* filter's creation or the poll of the filter has failed.
C9_step ==
    \A c \in Chains :
        /\ (Handled(c)' /\ last'.stage \in {"block", "logs"}) =>
               /\ pc'[c] \in {"poll", "block"}
               /\ pc'[c] = "block" <=> last'.rest # <<>>
               /\ pc'[c] = "block" => cur'[c] = Head(last'.rest)
        /\ (pc[c] # "ended" /\ pc'[c] = "ended") =>
               /\ last'.chain = c
               /\ last'.stage \in {"filter", "hashes"}
               /\ ~last'.response[1].ok

C9_WorkerEndsOnlyWithTheHashStream == [][C9_step]_vars

C9_Witness ==
    \E c \in Chains :
        /\ Handled(c)
        /\ last.stage = "block"
        /\ last.hash = 2
        /\ ~last.item[1].ok
        /\ delivered[c] = <<1>>
        /\ pc[c] = "poll"

NamedChain(entry) ==
    CASE entry.text \in {"Origin Block:     ", "Origin Events:    "} -> "origin"
      [] entry.text \in {"Auxiliary Block:     ", "Auxiliary Events:    "} ->
             "auxiliary"
      [] OTHER -> ""

ErrorEntries(entries) == SelectSeq(entries, LAMBDA en : en.level = "error")

\* C11: the entry logged for a suppressed error names the chain it occurred
\* on, and carries the failed stage's message as its cause.
C11_SuppressedErrorNamesItsChain ==
    \A c \in Chains :
        (Handled(c) /\ ~last.item[1].ok) =>
            \E k \in 1..Len(last.logged) :
                /\ last.logged[k].level = "error"
                /\ NamedChain(last.logged[k]) = c
                /\ last.logged[k].cause = last.item[1].err.text

Count(seq, x) == Len(SelectSeq(seq, LAMBDA y : y = x))

\* A call of register_reactor or of notify_reactors has just been made.
RegistryCall(stage) ==
    /\ last'.stage = stage
    /\ <<last, reactors>>' # <<last, reactors>>

\* C12: register_reactor appends its reactor to the registry of its connection
\* and changes nothing else, so the registry grows by one per call;
\* notify_reactors leaves the registries as they are and invokes each reactor
\* as many times as it is in the registry.
C12_step ==
    /\ RegistryCall("register") =>
           /\ reactors'[last'.chain] =
                  reactors[last'.chain] \o <<last'.request[1].reactor>>
           /\ \A c \in Chains \ {last'.chain} : reactors'[c] = reactors[c]
    /\ RegistryCall("notify") =>
           /\ reactors' = reactors
           /\ Len(last'.reacted) = Len(reactors[last'.chain])
           /\ \A r \in Reactors :
                  Count([i \in 1..Len(last'.reacted) |-> last'.reacted[i].reactor], r)
                      = Count(reactors[last'.chain], r)
           /\ \A i \in 1..Len(last'.reacted) :
                  last'.reacted[i].block = last'.item[1].val

C12_RegisterOnlyAppends == [][C12_step]_vars

C12_Witness ==
    \E c \in Chains :
        /\ last.chain = c
        /\ last.stage = "notify"
        /\ reactors[c] = <<1, 1>>
        /\ Len(last.reacted) = 2
        /\ last.reacted[1].reactor = 1
        /\ last.reacted[2].reactor = 1

\* The last turn handed the item of a block hash to the worker of chain c.
ItemOfHash(c) == Handled(c) /\ last.stage \in {"block", "logs"}

\* C13: the item of a hash has one outcome. Either the block was fetched,
\* converted and its logs were fetched, and the action is called once with it
\* and no error is logged; or one error is logged, no reactor is notified and
\* the action is not called. The hash is not fetched again.
C13_OneOutcomePerHash ==
    \A c \in Chains :
        ItemOfHash(c) =>
            LET item == last.item[1]
                errors == Len(ErrorEntries(last.logged))
            IN  /\ item.ok <=> (last.stage = "logs" /\ last.response[1].ok)
                /\ last.stage = "block" =>
                       \/ ~last.response[1].ok
                       \/ last.response[1].val = None
                       \/ ~last.conv[1].ok
                /\ IF item.ok
                   THEN /\ errors = 0
                        /\ Count(delivered[c], last.hash) = 1
                        /\ delivered[c][Len(delivered[c])] = last.hash
                        /\ Len(last.reacted) = Len(reactors[c])
                   ELSE /\ errors = 1
                        /\ last.reacted = <<>>
                        /\ Count(delivered[c], last.hash) = 0
                /\ last.request # Some([method |-> "eth_getBlockByHash",
                                        hash |-> last.hash])
                /\ cur[c] # 0 => cur[c] > last.hash

C13_Witness ==
    \E c \in Chains :
        /\ ItemOfHash(c)
        /\ last.stage = "logs"
        /\ last.hash = 1
        /\ ~last.item[1].ok
        /\ Len(ErrorEntries(last.logged)) = 1
        /\ reactors[c] # <<>>
        /\ last.reacted = <<>>
        /\ cur[c] = 2

\* The filter of the log request of the last turn.
LogFilter == last.request[1].filter

\* C14: for a converted block the log request carries a filter whose
\* from-block and to-block are both the low 64 bits of the block's number. The
\* filter names the block's own number exactly when the number is below 2^64;
\* for a larger number no error is produced, the pipeline goes on to the logs.
C14_LogFilterIsLowBitsOfNumber ==
    \A c \in Chains :
        (last.chain = c /\ Converted /\ last.conv[1].ok) =>
            LET number == last.conv[1].val.number
            IN  /\ last.request # None
                /\ last.request[1].method = "eth_getLogs"
                /\ LogFilter.from_block = number.lo
                /\ LogFilter.to_block = LogFilter.from_block
                /\ ([lo |-> LogFilter.from_block, hi |-> 0] = number)
                       <=> (number.hi = 0)
                /\ last.item = None
                /\ ErrorEntries(last.logged) = <<>>
                /\ pc[c] = "logs"
                /\ block[c] = Some(last.conv[1].val)

C14_Witness ==
    /\ Converted
    /\ last.conv[1].ok
    /\ last.conv[1].val.number = [lo |-> 7, hi |-> 1]
    /\ LogFilter = [from_block |-> 7, to_block |-> 7]
    /\ pc[last.chain] = "logs"

\* The last turn sent the request for the logs of a block.
LogFetchIssued == last.request # None /\ last.request[1].method = "eth_getLogs"

\* The last turn got a block from the node and converted it.
FetchedAndConverted ==
    /\ last.stage = "block"
    /\ last.response[1].ok
    /\ last.response[1].val # None
    /\ last.conv # None
    /\ last.conv[1].ok

\* C15: the stages of an item run in the order fetch block, convert, fetch
\* logs, decode logs, and a failing stage cuts the rest short. The log request
\* is sent exactly by the turn that fetched and converted a block; the event
\* handler is called only by the turn that received the logs, with these logs;
\* a failed block fetch, a missing block, a failed conversion or a failed log
\* fetch ends the item without a call of the event handler.
C15_FailingStageCutsTheRestShort ==
    \A c \in Chains :
        (last.chain = c /\ last.stage \in {"filter", "hashes", "block", "logs"}) =>
            /\ LogFetchIssued <=> FetchedAndConverted
            /\ last.decoded # <<>> =>
                   /\ last.stage = "logs"
                   /\ last.response[1].ok
                   /\ last.decoded = last.response[1].val
            /\ (last.stage = "block" /\ ~FetchedAndConverted) =>
                   /\ Handled(c)
                   /\ ~last.item[1].ok
                   /\ last.decoded = <<>>
                   /\ pc[c] # "logs"
            /\ (last.stage = "logs" /\ ~last.response[1].ok) =>
                   /\ Handled(c)
                   /\ ~last.item[1].ok
                   /\ last.decoded = <<>>
            /\ pc[c] = "logs" =>
                   /\ FetchedAndConverted
                   /\ block[c] = Some(last.conv[1].val)
                   /\ block[c][1].hash = cur[c]
                   /\ block[c][1].events = <<>>
            /\ (last.stage = "logs" /\ Acted(c)) =>
                   /\ last.item[1].val.hash = last.hash
                   /\ last.decoded = last.response[1].val

C15_Witness ==
    \E c \in Chains :
        /\ last.chain = c
        /\ last.stage = "block"
        /\ last.hash = 1
        /\ last.conv # None
        /\ ~last.conv[1].ok
        /\ ~LogFetchIssued
        /\ last.decoded = <<>>
        /\ last.request = Some([method |-> "eth_getBlockByHash", hash |-> 2])

\* The last turn sent the request for a block.
BlockFetchIssued == last.request # None /\ last.request[1].method = "eth_getBlockByHash"

\* The item of the last turn was dealt with to its end by the worker of chain
\* c: every reactor of the chain was called with the block, or the error was
\* logged.
FullyHandled(c) ==
    /\ Handled(c)
    /\ IF last.item[1].ok
       THEN /\ Len(last.reacted) = Len(reactors[c])
            /\ \A i \in 1..Len(last.reacted) :
                   last.reacted[i].block.hash = last.hash
       ELSE Len(ErrorEntries(last.logged)) = 1

\* C16: a chain has at most one block in flight. The fetch of the next hash
\* is sent only by the turn that dealt with the current item to its end (or
\* by the turn that received a batch of hashes while nothing was in flight),
\* it is for the one current hash, which is later than every hash handled
\* before and earlier than every hash still waiting; the blocks reach the
\* reactors in the order the hashes were discovered.
C16_OneBlockInFlight ==
    \A c \in Chains :
        /\ (last.chain = c /\ BlockFetchIssued) =>
               LET h == last.request[1].hash
               IN  /\ cur[c] = h
                   /\ pc[c] = "block"
                   /\ block[c] = None
                   /\ \/ last.stage = "hashes" /\ last.item = None /\ last.hash = 0
                      \/ FullyHandled(c) /\ last.hash # 0 /\ h > last.hash
        /\ (pc[c] \in {"block", "logs"}) <=> (cur[c] # 0)
        /\ pc[c] = "block" => block[c] = None
        /\ cur[c] # 0 =>
               /\ \A i \in 1..Len(queue[c]) : queue[c][i] > cur[c]
               /\ \A i \in 1..Len(delivered[c]) : delivered[c][i] < cur[c]
        /\ cur[c] = 0 => (queue[c] = <<>> /\ block[c] = None)
        /\ InDiscoveryOrder(queue[c])
        /\ InDiscoveryOrder(delivered[c])

C16_Witness ==
    \E c \in Chains :
        /\ Acted(c)
        /\ last.hash = 1
        /\ Len(reactors[c]) = 2
        /\ FullyHandled(c)
        /\ last.request = Some([method |-> "eth_getBlockByHash", hash |-> 2])
        /\ delivered[c] = <<1>>
        /\ cur[c] = 2

\* The reactors registered on the connection of chain c.
RegisteredOn(c) == { reactors[c][i] : i \in 1..Len(reactors[c]) }

\* The reactors called in the last turn.
Notified == { last.reacted[i].reactor : i \in 1..Len(last.reacted) }

\* C17: a block of a chain's stream is given to the reactors registered on
\* this chain's connection and to no reactor of the other connection, the
\* summary lines are those of this chain, and the action returns success (the
\* worker logs no error for it).
C17_BlockStaysOnItsChain ==
    \A c \in Chains :
        (started /\ last.chain = c) =>
            /\ \A o \in Chains \ {c} :
                   Notified \cap (RegisteredOn(o) \ RegisteredOn(c)) = {}
            /\ Acted(c) =>
                   /\ Notified = RegisteredOn(c)
                   /\ \A i \in 1..Len(last.reacted) :
                          /\ last.reacted[i].block = last.item[1].val
                          /\ last.reacted[i].block.hash = last.hash
                   /\ \A i \in 1..Len(last.logged) :
                          last.logged[i].level = "info" =>
                              NamedChain(last.logged[i]) = c
                   /\ \E i \in 1..Len(last.logged) : last.logged[i].level = "info"
                   /\ ErrorEntries(last.logged) = <<>>

C17_Witness ==
    /\ Acted("origin")
    /\ RegisteredOn("origin") # {}
    /\ RegisteredOn("auxiliary") # {}
    /\ Notified = RegisteredOn("origin")
    /\ delivered["auxiliary"] # <<>>

\* A step of a started observer leaves both registries as they are, and a
\* block that reaches the action in this step goes to the unchanged list.
C18_step ==
    started =>
        /\ reactors' = reactors
        /\ \A c \in Chains :
               (last'.chain = c /\ last'.item # None /\ last'.item[1].ok) =>
                   [i \in 1..Len(last'.reacted) |-> last'.reacted[i].reactor]
                       = reactors[c]

\* C18: once run was called, no step of a worker, of stream_blocks or of
\* notify_reactors adds, removes or reorders a reactor; every block of a chain
\* is delivered to the reactor list that existed when the workers started.
C18_RegistryFrozenAfterRun == [][C18_step]_vars

C18_Witness ==
    \E c \in Chains :
        /\ started
        /\ reactors[c] = <<1, 2>>
        /\ Acted(c)
        /\ last.hash = 2
        /\ delivered[c] = <<1, 2>>
        /\ [i \in 1..Len(last.reacted) |-> last.reacted[i].reactor] = <<1, 2>>

\* The fields of a block that are copied from the field of the same name.
SameNameFields ==
    {"parent_hash", "author", "state_root", "transactions_root", "logs_bloom",
     "total_difficulty", "gas_limit", "gas_used", "timestamp", "extra_data"}

\* C19: a record that converts gives a block whose uncles_hash is the
\* record's parent_hash, whose receipts_root and mix_data are the record's
\* transactions_root and whose nonce is the record's difficulty; parent_hash,
\* author, state_root, transactions_root, logs_bloom, total_difficulty,
\* gas_limit, gas_used, timestamp and extra_data are the record's fields of
\* the same name.
C19_FieldsMappedAsInTheSource ==
    (Converted /\ last.conv[1].ok) =>
        LET raw == ConvertedRecord
            b == last.conv[1].val
        IN  /\ b.uncles_hash = raw.parent_hash
            /\ b.receipts_root = raw.transactions_root
            /\ b.mix_data = raw.transactions_root
            /\ b.nonce = raw.difficulty
            /\ \A f \in SameNameFields : b[f] = raw[f]
            /\ b.hash = raw.hash[1]
            /\ b.number = raw.number[1]
            /\ block[last.chain] = Some(b)

C19_Witness ==
    /\ Converted
    /\ last.conv[1].ok
    /\ ConvertedRecord.parent_hash = 12
    /\ ConvertedRecord.transactions_root = 42
    /\ last.conv[1].val.uncles_hash = 12
    /\ last.conv[1].val.receipts_root = 42
    /\ last.conv[1].val.mix_data = 42
    /\ last.conv[1].val.nonce = 112
    /\ last.conv[1].val.state_root = 32

\* The node did not unlock the account for call i: the unlock request failed.
UnlockFailed(i) == calls[i].unlocked # None /\ ~calls[i].unlocked[1].ok

\* C20: unlock_account panics when it cannot unlock the validator account: a
\* failed unlock aborts the call and hands no error value to the caller.
C20_FailedUnlockPanics ==
    \A i \in 1..MaxSigns :
        UnlockFailed(i) =>
            /\ calls[i].pc = "panicked"
            /\ calls[i].result = None

====
